---- MODULE Spec2Model ----
(***************************************************************************)
(* Model of server/api/app.py: the Flask handlers, the Supabase tables     *)
(* they read and write, the identity provider and the Ollama chat call.    *)
(* Each handler is cut at its external calls: one action runs one external *)
(* call together with the local code that follows it, up to the next       *)
(* external call or the return.  Requests run in parallel workers.         *)
(***************************************************************************)
EXTENDS Integers, Sequences, FiniteSets, TLC

VARIABLES req, last, chats, doctors, vitals, ctg, nreq, turns, overlapped, got

vars == <<req, last, chats, doctors, vitals, ctg, nreq, turns, overlapped, got>>

\* ---------------------------------------------------------------- bounds
\* requests served in a run of Spec (all routes)
MaxRequests == 2
\* requests served in a run of ChatSpec (the two /chat routes)
MaxChatRequests == 3

\* ------------------------------------------------------- small input sets
\* the parallel request workers
Reqs == {"w1", "w2"}
Users == {"u1", "u2"}
\* data['message'] values and assistant texts
Msgs == {"m1", "m2"}
Replies == {"r1"}
\* the Authorization header: missing, not starting with 'Bearer ', or Bearer
Headers == {"absent", "malformed", "bearer"}
PyNone == "<None>"
Nobody == "<nobody>"
\* supabase.auth.get_user(token): a user, a falsy result, a result whose
\* .user is None, or an exception
AuthKinds == {"ok", "none", "nouser", "raise"}
AuthOutcomes ==
    {[kind |-> k, user |-> Nobody] : k \in AuthKinds \ {"ok"}}
    \cup {[kind |-> "ok", user |-> u] : u \in Users}
\* label ids a classifier can return; 3 is not a maternal id, 0 not a fetal one
LabelIds == 0..3
\* lengths of the "features" list of a /predict_fetal body
FeatureLengths == {14, 15, 16}
\* what scaler.transform and model.predict can do with a well-formed matrix
NotRun == [kind |-> "not_run", id |-> -1]
ClassifierOutcomes ==
    {[kind |-> "scale_raise", id |-> -1], [kind |-> "predict_raise", id |-> -1]}
    \cup {[kind |-> "label", id |-> i] : i \in LabelIds}
\* request bodies of /predict_maternal
MaternalBodies == {"valid", "unparseable", "missing_key", "nonnumeric"}
\* request bodies of /predict_fetal; n is the length of a numeric "features"
FetalBodies ==
    {[kind |-> k, n |-> -1] : k \in {"unparseable", "no_features"}}
    \cup {[kind |-> k, n |-> n] : k \in {"valid", "nonnumeric"}, n \in FeatureLengths}

\* ------------------------------------------------------------ chat(), 27-50
\* What the Ollama endpoint can answer.
UpstreamReplies ==
    {[kind |-> "transport_error", content |-> PyNone],
     [kind |-> "not_json", content |-> PyNone],
     [kind |-> "error_body", content |-> PyNone]}
    \cup {[kind |-> "ok", content |-> c] : c \in Replies}

\* chat() with "except: return an empty result" instead of the re-raise
chat_swallow(reply) ==
    IF reply.kind = "ok"
    THEN [raised |-> FALSE, content |-> reply.content]
    ELSE [raised |-> FALSE, content |-> PyNone]

\* chat(model, messages): requests.post or response.json() raising is
\* re-raised; a JSON object without "message" yields DotDict({}) whose
\* .content is dict.get -> None.
chat(reply) ==
    IF reply.kind \in {"transport_error", "not_json"}
    THEN [raised |-> TRUE, content |-> PyNone]
    ELSE IF reply.kind = "error_body"
         THEN [raised |-> FALSE, content |-> PyNone]
         ELSE [raised |-> FALSE, content |-> reply.content]

\* f"{response.message.content}"
FStr(x) == IF x = PyNone THEN "None" ELSE x

\* --------------------------------------------------------- auth header
HeaderOk(h) == h = "bearer"

\* ------------------------------------------------------ chats table, 276-292
SeedMessage == [role |-> "user", content |-> "seed"]

SeedHistory == <<SeedMessage>>

\* the .eq('UID', uid) filter left out
SelectLatest_anyUser(rows, uid) ==
    IF rows = <<>> THEN <<>> ELSE <<rows[Len(rows)]>>

\* select().eq('UID', uid).order('created_at', desc=True).limit(1)
RECURSIVE SelectLatest(_, _)
SelectLatest(rows, uid) ==
    IF rows = <<>> THEN <<>>
    ELSE IF rows[Len(rows)].UID = uid THEN <<rows[Len(rows)]>>
         ELSE SelectLatest(SubSeq(rows, 1, Len(rows) - 1), uid)

\* the stored row is ignored and every turn starts from the seed
LoadHistory_seedAlways(data) == SeedHistory

\* lines 279-282
LoadHistory(data) ==
    IF data = <<>> THEN SeedHistory ELSE data[1].chat_history

\* the user turn put in front of the transcript
AppendUser_front(h, m) == <<[role |-> "user", content |-> m]>> \o h

AppendUser(h, m) == Append(h, [role |-> "user", content |-> m])

\* no assistant turn for a reply without content
AppendAssistant_skipNone(h, c) ==
    IF c = PyNone THEN h ELSE Append(h, [role |-> "assistant", content |-> c])

AppendAssistant(h, c) == Append(h, [role |-> "assistant", content |-> FStr(c)])

\* an upsert that refuses a transcript not longer than the stored one
Upsert_ifLonger(rows, uid, h) ==
    IF \E i \in 1..Len(rows) : rows[i].UID = uid
    THEN [i \in 1..Len(rows) |->
            IF rows[i].UID = uid /\ Len(rows[i].chat_history) < Len(h)
            THEN [UID |-> uid, chat_history |-> h]
            ELSE rows[i]]
    ELSE Append(rows, [UID |-> uid, chat_history |-> h])

\* upsert({'UID': uid, 'chat_history': h}): replace the user's row, or insert
Upsert(rows, uid, h) ==
    IF \E i \in 1..Len(rows) : rows[i].UID = uid
    THEN [i \in 1..Len(rows) |->
            IF rows[i].UID = uid THEN [UID |-> uid, chat_history |-> h]
            ELSE rows[i]]
    ELSE Append(rows, [UID |-> uid, chat_history |-> h])

\* ------------------------------------------------------------- requests
Fresh(route) ==
    [pc |-> "begin", route |-> route, hdr |-> "unread", auth |-> "notcalled",
     uid |-> Nobody, data |-> <<>>, chat_history |-> <<>>, msg |-> PyNone,
     sent |-> <<>>, reply |-> "none", content |-> PyNone,
     bodyk |-> "unread", nfeat |-> -1, prediction |-> -1,
     status |-> 0, envelope |-> "none", body |-> <<>>, fault |-> "none",
     reads |-> 0, writes |-> 0, upstream |-> 0, scales |-> 0, models |-> 0]

Idle == [Fresh("none") EXCEPT !.pc = "idle"]

\* return ..., status
Respond(rec, status, envelope, body, fault) ==
    [rec EXCEPT !.pc = "done", !.status = status, !.envelope = envelope,
                !.body = body, !.fault = fault]

\* except Exception as e: return jsonify({"error": str(e)}), 500
Caught(rec, fault) == Respond(rec, 500, "json_error", <<>>, fault)

\* no try block around the code: the exception leaves the view function
Unhandled(rec, fault) == Respond(rec, 500, "unstructured", <<>>, fault)

\* a free worker takes the next request
CanBegin(r) == req[r].pc = "idle"

\* The worker keeps a request that is still running; a finished request
\* frees the worker.  last is the request whose response the step just taken
\* has sent (Idle when that step sent none).
Step(r, rec) ==
    /\ req' = [req EXCEPT ![r] = IF rec.pc = "done" THEN Idle ELSE rec]
    /\ last' = IF rec.pc = "done" THEN rec ELSE Idle

\* got[u]: how many GET /chat of u were answered with 200 since the last
\* write to u's chats row (0, 1, or 2 for more than one), and what they returned
NoGet == [n |-> 0, hist |-> <<>>]

InWindow(r, u) ==
    req[r].route = "chat_post" /\ req[r].uid = u /\ req[r].pc \in {"chat", "upsert"}

Init ==
    /\ req = [r \in Reqs |-> Idle]
    /\ last = Idle
    /\ chats = <<>>
    /\ doctors = <<>>
    /\ vitals = <<>>
    /\ ctg = <<>>
    /\ nreq = 0
    /\ turns = [u \in Users |-> <<>>]
    /\ overlapped = [u \in Users |-> FALSE]
    /\ got = [u \in Users |-> NoGet]

\* ------------------------------------------------- POST /chat, lines 258-296
\* lines 261-268: request.json, then the Authorization header
chatbot_begin(r) ==
    /\ CanBegin(r)
    /\ nreq' = nreq + 1
    /\ \E parses \in BOOLEAN :
         \E h \in Headers :
         LET f == [Fresh("chat_post") EXCEPT !.hdr = h] IN
         Step(r, IF ~parses THEN Caught(f, "body_unparseable")
                 ELSE IF ~HeaderOk(h)
                      THEN Respond(f, 401, "json_error", <<>>, "header")
                      ELSE [f EXCEPT !.pc = "get_user"])
    /\ UNCHANGED <<chats, doctors, vitals, ctg, turns, overlapped, got>>

\* lines 270-276: supabase.auth.get_user(token), then user_data.user.id
chatbot_get_user(r) ==
    /\ req[r].route = "chat_post" /\ req[r].pc = "get_user"
    /\ \E a \in AuthOutcomes :
         LET f == [req[r] EXCEPT !.auth = a.kind]
             out == a.kind
             u == a.user
         IN
         Step(r, CASE out = "raise" -> Caught(f, "auth_raise")
                     [] out = "none" -> Respond(f, 401, "json_error", <<>>, "auth_invalid")
                     [] out = "nouser" -> Caught(f, "auth_nouser")
                     [] OTHER -> [f EXCEPT !.uid = u, !.pc = "select"])
    /\ UNCHANGED <<chats, doctors, vitals, ctg, nreq, turns, overlapped, got>>

\* lines 276-285: select the latest row, seed if none, append the user turn
chatbot_select(r) ==
    /\ req[r].route = "chat_post" /\ req[r].pc = "select"
    /\ \E storeOk \in BOOLEAN :
         \E m \in IF storeOk THEN Msgs \cup {PyNone} ELSE {PyNone} :
         LET f == [req[r] EXCEPT !.reads = @ + 1]
             data == SelectLatest(chats, req[r].uid)
             u == req[r].uid
         IN
         /\ Step(r, IF ~storeOk THEN Caught(f, "store_raise")
                    ELSE IF m = PyNone
                         THEN Caught([f EXCEPT !.data = data,
                                               !.chat_history = LoadHistory(data)],
                                     "body_missing_key")
                         ELSE [f EXCEPT !.data = data,
                                        !.chat_history = AppendUser(LoadHistory(data), m),
                                        !.msg = m, !.pc = "chat"])
         /\ overlapped' =
              IF storeOk /\ m # PyNone /\ \E o \in Reqs \ {r} : InWindow(o, u)
              THEN [overlapped EXCEPT ![u] = TRUE]
              ELSE overlapped
    /\ UNCHANGED <<chats, doctors, vitals, ctg, nreq, turns, got>>

\* lines 288-291: chat(), then append the assistant turn
chatbot_chat(r) ==
    /\ req[r].route = "chat_post" /\ req[r].pc = "chat"
    /\ \E reply \in UpstreamReplies :
         LET f == [req[r] EXCEPT !.upstream = @ + 1, !.reply = reply.kind,
                                 !.sent = req[r].chat_history]
             res == chat(reply)
         IN
         Step(r, IF res.raised THEN Caught(f, "chat_raise")
                 ELSE [f EXCEPT !.content = res.content,
                                !.chat_history = AppendAssistant(f.chat_history, res.content),
                                !.pc = "upsert"])
    /\ UNCHANGED <<chats, doctors, vitals, ctg, nreq, turns, overlapped, got>>

\* lines 292-294: upsert the full transcript, answer with the assistant text
chatbot_upsert(r) ==
    /\ req[r].route = "chat_post" /\ req[r].pc = "upsert"
    /\ \E storeOk \in BOOLEAN :
         LET f == [req[r] EXCEPT !.writes = @ + 1]
             u == req[r].uid
         IN
         IF storeOk
         THEN /\ chats' = Upsert(chats, u, f.chat_history)
              /\ Step(r,
                           Respond(f, 200, "json_ok", <<f.content>>, "none"))
              /\ turns' = [turns EXCEPT ![u] = Append(@, f.msg)]
              /\ got' = [got EXCEPT ![u] = NoGet]
         ELSE /\ Step(r, Caught(f, "store_raise"))
              /\ UNCHANGED <<chats, turns, got>>
    /\ UNCHANGED <<doctors, vitals, ctg, nreq, overlapped>>

\* -------------------------------------------------- GET /chat, lines 241-256
\* lines 243-247
chatbot_get_begin(r) ==
    /\ CanBegin(r)
    /\ nreq' = nreq + 1
    /\ \E h \in Headers :
         LET f == [Fresh("chat_get") EXCEPT !.hdr = h] IN
         Step(r, IF ~HeaderOk(h)
                   THEN Respond(f, 401, "json_error", <<>>, "header")
                   ELSE [f EXCEPT !.pc = "get_user"])
    /\ UNCHANGED <<chats, doctors, vitals, ctg, turns, overlapped, got>>

\* lines 248-254: get_user, then user_data.user.id while building the query
chatbot_get_get_user(r) ==
    /\ req[r].route = "chat_get" /\ req[r].pc = "get_user"
    /\ \E a \in AuthOutcomes :
         LET f == [req[r] EXCEPT !.auth = a.kind]
             out == a.kind
             u == a.user
         IN
         Step(r, CASE out = "raise" -> Unhandled(f, "auth_raise")
                     [] out = "none" -> Respond(f, 401, "json_error", <<>>, "auth_invalid")
                     [] out = "nouser" -> Unhandled(f, "auth_nouser")
                     [] OTHER -> [f EXCEPT !.uid = u, !.pc = "select"])
    /\ UNCHANGED <<chats, doctors, vitals, ctg, nreq, turns, overlapped, got>>

\* the seed is cut off the returned history
chatbot_get_result_noSeed(f, data) ==
    IF data = <<>> THEN Unhandled(f, "index_error")
    ELSE Respond(f, 200, "json_ok", Tail(data[1].chat_history), "none")

\* chat_data.data[0]['chat_history'], line 256
chatbot_get_result(f, data) ==
    IF data = <<>> THEN Unhandled(f, "index_error")
    ELSE Respond(f, 200, "json_ok", data[1].chat_history, "none")

\* lines 254-256
chatbot_get_select(r) ==
    /\ req[r].route = "chat_get" /\ req[r].pc = "select"
    /\ \E storeOk \in BOOLEAN :
         LET data == SelectLatest(chats, req[r].uid)
             f == [req[r] EXCEPT !.reads = @ + 1]
             res == IF ~storeOk THEN Unhandled(f, "store_raise")
                    ELSE chatbot_get_result([f EXCEPT !.data = data], data)
         IN
         /\ Step(r, res)
         /\ got' = IF res.status = 200
                   THEN [got EXCEPT ![req[r].uid] =
                           [n |-> IF @.n = 0 THEN 1 ELSE 2, hist |-> res.body]]
                   ELSE got
    /\ UNCHANGED <<chats, doctors, vitals, ctg, nreq, turns, overlapped>>

\* ------------------------------------ POST /create_doctor_profile, lines 66-83
\* lines 70-77: request.json and the data.get calls; no Authorization check
create_doctor_profile_begin(r) ==
    /\ CanBegin(r)
    /\ nreq' = nreq + 1
    /\ \E parses \in BOOLEAN :
         LET f == Fresh("create_doctor_profile") IN
         Step(r, IF ~parses THEN Caught(f, "body_unparseable")
                 ELSE [f EXCEPT !.pc = "upsert"])
    /\ UNCHANGED <<chats, doctors, vitals, ctg, turns, overlapped, got>>

\* lines 79-83
create_doctor_profile_upsert(r) ==
    /\ req[r].route = "create_doctor_profile" /\ req[r].pc = "upsert"
    /\ \E storeOk \in BOOLEAN :
         LET f == [req[r] EXCEPT !.writes = @ + 1] IN
         IF storeOk
         THEN /\ doctors' = Append(doctors, [name |-> "d"])
              /\ Step(r, Respond(f, 200, "json_ok", <<>>, "none"))
         ELSE /\ Step(r, Caught(f, "store_raise"))
              /\ UNCHANGED doctors
    /\ UNCHANGED <<chats, vitals, ctg, nreq, turns, overlapped, got>>

\* --------------------------------------- POST /predict_maternal, lines 86-130
\* the names of Suspect and Pathological exchanged
risk_mapping_swapped == [i \in {0, 1, 2} |->
                   CASE i = 0 -> "Normal" [] i = 1 -> "Pathological" [] OTHER -> "Suspect"]

\* risk_mapping, line 113
risk_mapping == [i \in {0, 1, 2} |->
                   CASE i = 0 -> "Normal" [] i = 1 -> "Suspect" [] OTHER -> "Pathological"]

\* lines 89-93
predict_maternal_begin(r) ==
    /\ CanBegin(r)
    /\ nreq' = nreq + 1
    /\ \E h \in Headers :
         LET f == [Fresh("predict_maternal") EXCEPT !.hdr = h] IN
         Step(r, IF ~HeaderOk(h)
                 THEN Respond(f, 401, "json_error", <<>>, "header")
                 ELSE [f EXCEPT !.pc = "get_user"])
    /\ UNCHANGED <<chats, doctors, vitals, ctg, turns, overlapped, got>>

\* lines 95-99: only a falsy result is rejected
predict_maternal_get_user(r) ==
    /\ req[r].route = "predict_maternal" /\ req[r].pc = "get_user"
    /\ \E a \in AuthOutcomes :
         LET f == [req[r] EXCEPT !.auth = a.kind]
             out == a.kind
             u == a.user
         IN
         Step(r, CASE out = "raise" -> Caught(f, "auth_raise")
                   [] out = "none" -> Respond(f, 401, "json_error", <<>>, "auth_invalid")
                   [] out = "nouser" -> [f EXCEPT !.pc = "classify"]
                   [] OTHER -> [f EXCEPT !.uid = u, !.pc = "classify"])
    /\ UNCHANGED <<chats, doctors, vitals, ctg, nreq, turns, overlapped, got>>

\* lines 101-125: parse, float(), scale, predict, map, build the vitals row
predict_maternal_classify(r) ==
    /\ req[r].route = "predict_maternal" /\ req[r].pc = "classify"
    /\ \E b \in MaternalBodies :
         \E o \in IF b = "valid" THEN ClassifierOutcomes ELSE {NotRun} :
         LET f == [req[r] EXCEPT !.bodyk = b]
             sc == [f EXCEPT !.scales = @ + 1]
             g == [sc EXCEPT !.models = @ + 1]
             p == [g EXCEPT !.prediction = o.id]
         IN
         Step(r, CASE b = "unparseable" -> Caught(f, "body_unparseable")
                   [] b = "missing_key" -> Caught(f, "body_missing_key")
                   [] b = "nonnumeric" -> Caught(f, "body_nonnumeric")
                   [] o.kind = "scale_raise" -> Caught(sc, "scale_raise")
                   [] o.kind = "predict_raise" -> Caught(g, "predict_raise")
                   [] o.id \notin DOMAIN risk_mapping -> Caught(p, "unknown_label")
                   [] f.auth = "nouser" -> Caught(p, "auth_nouser")
                   [] OTHER -> [p EXCEPT !.pc = "insert"])
    /\ UNCHANGED <<chats, doctors, vitals, ctg, nreq, turns, overlapped, got>>

\* lines 126-130
predict_maternal_insert(r) ==
    /\ req[r].route = "predict_maternal" /\ req[r].pc = "insert"
    /\ \E storeOk \in BOOLEAN :
         LET f == [req[r] EXCEPT !.writes = @ + 1] IN
         IF storeOk
         THEN /\ vitals' = Append(vitals, [UID |-> f.uid, prediction |-> f.prediction])
              /\ Step(r, Respond(f, 200, "json_ok", <<risk_mapping[f.prediction]>>, "none"))
         ELSE /\ Step(r, Caught(f, "store_raise"))
              /\ UNCHANGED vitals
    /\ UNCHANGED <<chats, doctors, ctg, nreq, turns, overlapped, got>>

\* ------------------------------------------ POST /predict_fetal, lines 132-207
\* the length check off by one
expected_feature_length_off == 15 + 1

expected_feature_length == 15

\* the maternal ids 0, 1, 2 used for the fetal labels
health_status_fromZero(id) ==
    CASE id = 0 -> "Normal" [] id = 1 -> "Suspect" [] id = 2 -> "Pathological"
      [] OTHER -> "Unknown"

\* health_status.get(prediction, "Unknown"), lines 176-177
health_status(id) ==
    CASE id = 1 -> "Normal" [] id = 2 -> "Suspect" [] id = 3 -> "Pathological"
      [] OTHER -> "Unknown"

\* lines 136-140
predict_fetal_begin(r) ==
    /\ CanBegin(r)
    /\ nreq' = nreq + 1
    /\ \E h \in Headers :
         LET f == [Fresh("predict_fetal") EXCEPT !.hdr = h] IN
         Step(r, IF ~HeaderOk(h)
                 THEN Respond(f, 401, "json_error", <<>>, "header")
                 ELSE [f EXCEPT !.pc = "get_user"])
    /\ UNCHANGED <<chats, doctors, vitals, ctg, turns, overlapped, got>>

\* lines 143-148: its own try block, and the user object is checked
predict_fetal_get_user(r) ==
    /\ req[r].route = "predict_fetal" /\ req[r].pc = "get_user"
    /\ \E a \in AuthOutcomes :
         LET f == [req[r] EXCEPT !.auth = a.kind]
             out == a.kind
             u == a.user
         IN
         Step(r, CASE out = "raise" -> Respond(f, 401, "json_error", <<>>, "auth_raise")
                   [] out \in {"none", "nouser"} ->
                        Respond(f, 401, "json_error", <<>>, "auth_invalid")
                   [] OTHER -> [f EXCEPT !.uid = u, !.pc = "classify"])
    /\ UNCHANGED <<chats, doctors, vitals, ctg, nreq, turns, overlapped, got>>

\* lines 151-196: parse, np.array(dtype=float), length check, scale, predict
predict_fetal_classify(r) ==
    /\ req[r].route = "predict_fetal" /\ req[r].pc = "classify"
    /\ \E b \in FetalBodies :
         \E o \in IF b.kind = "valid" /\ b.n = expected_feature_length
                   THEN ClassifierOutcomes ELSE {NotRun} :
         LET f == [req[r] EXCEPT !.bodyk = b.kind, !.nfeat = b.n]
             sc == [f EXCEPT !.scales = @ + 1]
             g == [sc EXCEPT !.models = @ + 1]
         IN
         Step(r, CASE b.kind = "unparseable" -> Caught(f, "body_unparseable")
                   [] b.kind = "no_features" ->
                        Respond(f, 400, "json_error", <<>>, "body_missing_key")
                   [] b.kind = "nonnumeric" -> Caught(f, "body_nonnumeric")
                   [] b.n # expected_feature_length ->
                        Respond(f, 400, "json_error", <<>>, "wrong_arity")
                   [] o.kind = "scale_raise" -> Caught(sc, "scale_raise")
                   [] o.kind = "predict_raise" -> Caught(g, "predict_raise")
                   [] OTHER -> [g EXCEPT !.prediction = o.id, !.pc = "insert"])
    /\ UNCHANGED <<chats, doctors, vitals, ctg, nreq, turns, overlapped, got>>

\* lines 199-204
predict_fetal_insert(r) ==
    /\ req[r].route = "predict_fetal" /\ req[r].pc = "insert"
    /\ \E storeOk \in BOOLEAN :
         LET f == [req[r] EXCEPT !.writes = @ + 1] IN
         IF storeOk
         THEN /\ ctg' = Append(ctg, [UID |-> f.uid, prediction |-> f.prediction])
              /\ Step(r, Respond(f, 200, "json_ok",
                                 <<f.prediction, health_status(f.prediction)>>, "none"))
         ELSE /\ Step(r, Caught(f, "store_raise"))
              /\ UNCHANGED ctg
    /\ UNCHANGED <<chats, doctors, vitals, nreq, turns, overlapped, got>>

\* ---------------------------------------------- POST /diet_plan, lines 209-239
\* lines 212-218: request.json comes before the Authorization check
pregnancy_diet_begin(r) ==
    /\ CanBegin(r)
    /\ nreq' = nreq + 1
    /\ \E parses \in BOOLEAN :
         \E h \in Headers :
         LET f == [Fresh("diet_plan") EXCEPT !.hdr = h] IN
         Step(r, IF ~parses THEN Caught(f, "body_unparseable")
                 ELSE IF ~HeaderOk(h)
                      THEN Respond(f, 401, "json_error", <<>>, "header")
                      ELSE [f EXCEPT !.pc = "get_user"])
    /\ UNCHANGED <<chats, doctors, vitals, ctg, turns, overlapped, got>>

\* lines 220-225: get_user, then the prompt is built from the body
pregnancy_diet_get_user(r) ==
    /\ req[r].route = "diet_plan" /\ req[r].pc = "get_user"
    /\ \E a \in AuthOutcomes, hasKeys \in BOOLEAN :
         LET f == [req[r] EXCEPT !.auth = a.kind]
             out == a.kind
             u == a.user
         IN
         Step(r, CASE out = "raise" -> Caught(f, "auth_raise")
                   [] out = "none" -> Respond(f, 401, "json_error", <<>>, "auth_invalid")
                   [] ~hasKeys -> Caught(f, "body_missing_key")
                   [] out = "nouser" -> [f EXCEPT !.pc = "chat"]
                   [] OTHER -> [f EXCEPT !.uid = u, !.pc = "chat"])
    /\ UNCHANGED <<chats, doctors, vitals, ctg, nreq, turns, overlapped, got>>

\* diet_data is inserted into the store before the plan is returned
pregnancy_diet_chat_stores(r) ==
    /\ req[r].route = "diet_plan" /\ req[r].pc = "chat"
    /\ \E reply \in UpstreamReplies :
         LET f == [req[r] EXCEPT !.upstream = @ + 1, !.reply = reply.kind]
             res == chat(reply)
         IN
         Step(r, CASE res.raised -> Caught(f, "chat_raise")
                   [] f.auth = "nouser" -> Caught(f, "auth_nouser")
                   [] OTHER -> Respond([f EXCEPT !.content = res.content, !.writes = @ + 1],
                                       200, "json_ok", <<res.content>>, "none"))
    /\ UNCHANGED <<chats, doctors, vitals, ctg, nreq, turns, overlapped, got>>

\* lines 227-239: chat(), diet_data is built and dropped, the plan is returned
pregnancy_diet_chat(r) ==
    /\ req[r].route = "diet_plan" /\ req[r].pc = "chat"
    /\ \E reply \in UpstreamReplies :
         LET f == [req[r] EXCEPT !.upstream = @ + 1, !.reply = reply.kind]
             res == chat(reply)
         IN
         Step(r, CASE res.raised -> Caught(f, "chat_raise")
                   [] f.auth = "nouser" -> Caught(f, "auth_nouser")
                   [] OTHER -> Respond([f EXCEPT !.content = res.content], 200, "json_ok",
                                       <<res.content>>, "none"))
    /\ UNCHANGED <<chats, doctors, vitals, ctg, nreq, turns, overlapped, got>>

\* --------------------------------------------------------- GET /, lines 298-300
ind(r) ==
    /\ CanBegin(r)
    /\ nreq' = nreq + 1
    /\ Step(r, Respond(Fresh("ind"), 200, "text", <<"Hello governer">>, "none"))
    /\ UNCHANGED <<chats, doctors, vitals, ctg, turns, overlapped, got>>

\* the first step of the handler of each route
Begin(r) ==
    \/ create_doctor_profile_begin(r)
    \/ predict_maternal_begin(r)
    \/ predict_fetal_begin(r)
    \/ pregnancy_diet_begin(r)
    \/ chatbot_get_begin(r)
    \/ chatbot_begin(r)
    \/ ind(r)

\* the later steps of the /chat handlers
ChatStep(r) ==
    \/ chatbot_get_get_user(r)
    \/ chatbot_get_select(r)
    \/ chatbot_get_user(r)
    \/ chatbot_select(r)
    \/ chatbot_chat(r)
    \/ chatbot_upsert(r)

Next ==
    \E r \in Reqs :
        \/ nreq < MaxRequests /\ Begin(r)
        \/ ChatStep(r)
        \/ create_doctor_profile_upsert(r)
        \/ predict_maternal_get_user(r)
        \/ predict_maternal_classify(r)
        \/ predict_maternal_insert(r)
        \/ predict_fetal_get_user(r)
        \/ predict_fetal_classify(r)
        \/ predict_fetal_insert(r)
        \/ pregnancy_diet_get_user(r)
        \/ pregnancy_diet_chat(r)

Spec == Init /\ [][Next]_vars

\* only the two /chat routes are called
ChatNext ==
    \E r \in Reqs :
        \/ nreq < MaxChatRequests /\ (chatbot_begin(r) \/ chatbot_get_begin(r))
        \/ ChatStep(r)

ChatSpec == Init /\ [][ChatNext]_vars

\* ====================================================================
\* Properties
\* ====================================================================
Protected == {"predict_maternal", "predict_fetal", "diet_plan", "chat_get", "chat_post"}

\* the rows of user u in a table, oldest first
RowsOf(rows, u) == SelectSeq(rows, LAMBDA x : x.UID = u)

\* the most recently created row of user u, as a list of at most one row
LatestRow(rows, u) ==
    LET mine == RowsOf(rows, u) IN
    IF mine = <<>> THEN <<>> ELSE <<mine[Len(mine)]>>

\* the authoritative stored history of user u (<<>> when u has no row)
Stored(u) ==
    LET d == LatestRow(chats, u) IN IF d = <<>> THEN <<>> ELSE d[1].chat_history

\* every request the state shows: the running ones and the one just answered
Shown == {req[r] : r \in Reqs} \cup {last}

\* C1: when the chat() call of a POST /chat fails (transport failure or a body
\* that is not JSON), the request is answered with a 500 error envelope, it has
\* made no store write, and, unless another POST /chat of the same user ran
\* alongside it, the user's stored row is the one the request loaded.
C1_NoPartialCommit ==
    (last.route = "chat_post" /\ last.reply \in {"transport_error", "not_json"}) =>
        /\ last.status = 500
        /\ last.envelope = "json_error"
        /\ last.writes = 0
        /\ ~overlapped[last.uid] => LatestRow(chats, last.uid) = last.data

\* a POST /chat whose upstream call failed, made when a conversation was stored
C1_Witness ==
    /\ last.route = "chat_post"
    /\ last.reply \in {"transport_error", "not_json"}
    /\ last.data # <<>>
    /\ last.status = 500

\* C2: when the chat endpoint answers a POST /chat with a JSON body that has no
\* message, the request is answered with 500 and makes no store write.
C2_MalformedReplyFails ==
    (last.route = "chat_post" /\ last.reply = "error_body") =>
        (last.status = 500 /\ last.writes = 0)

\* C3: for a user whose POST /chat requests never overlapped, after N successful
\* ones the stored history has 1 + 2N messages: the seed, then for the i-th POST
\* its user message followed by an assistant message.
C3_SequentialTurns ==
    \A u \in Users :
        ~overlapped[u] =>
            LET h == Stored(u)
                N == Len(turns[u])
            IN
            IF N = 0 THEN h = <<>>
            ELSE /\ Len(h) = 1 + 2 * N
                 /\ h[1] = SeedMessage
                 /\ \A i \in 1..N :
                      /\ h[2 * i] = [role |-> "user", content |-> turns[u][i]]
                      /\ h[2 * i + 1].role = "assistant"

\* two successful sequential POSTs of one user, with different messages
C3_Witness ==
    \E u \in Users :
        /\ ~overlapped[u]
        /\ Len(turns[u]) = 2
        /\ turns[u][1] # turns[u][2]
        /\ Len(Stored(u)) = 5

\* C4: a request on a protected route whose Authorization header is absent or
\* does not start with 'Bearer ' is answered with 401 and has made no identity
\* provider call, no store read or write and no upstream call.
C4_BadHeaderIs401 ==
    (last.route \in Protected /\ last.hdr \in {"absent", "malformed"}) =>
        /\ last.status = 401
        /\ last.auth = "notcalled"
        /\ last.reads = 0 /\ last.writes = 0 /\ last.upstream = 0

\* C5: a request on a protected route for which the identity provider raised, or
\* returned an empty result or one without a user, is answered with 401 and has
\* made no store read or write, no model invocation and no upstream call.
C5_AuthFailureIs401 ==
    (last.route \in Protected /\ last.auth \in {"raise", "none", "nouser"}) =>
        /\ last.status = 401
        /\ last.reads = 0 /\ last.writes = 0
        /\ last.models = 0 /\ last.upstream = 0

\* C6: the save of a POST /chat checks neither a lock nor a version: whenever a
\* POST /chat is answered with 200, the user's stored history has become that
\* request's own transcript, whatever was stored in the meantime.
C6_SaveOverwrites ==
    [][\A r \in Reqs :
          (/\ req[r].route = "chat_post" /\ req[r].pc = "upsert"
           /\ req'[r].pc = "idle" /\ last'.status = 200)
          => LatestRow(chats', req[r].uid) =
                <<[UID |-> req[r].uid, chat_history |-> req[r].chat_history]>>]_vars

\* the lost update: two POSTs of one user overlapped, both were answered with
\* 200, and the stored history holds the seed and one turn only
C6_Witness ==
    \E u \in Users :
        /\ overlapped[u]
        /\ Len(turns[u]) = 2
        /\ Len(Stored(u)) = 3
        /\ Stored(u)[2].content = turns[u][2]
        /\ turns[u][1] # turns[u][2]

\* C7: loading the conversation of an authenticated user who has no stored row
\* does not fail: GET /chat answers 200 with the one-message seeded history, and
\* POST /chat goes on with the seed followed by the user turn.
C7_AbsentConversationLoads ==
    /\ (/\ last.route = "chat_get" /\ last.reads = 1
        /\ last.fault # "store_raise" /\ last.data = <<>>)
       => (last.status = 200 /\ last.body = SeedHistory)
    /\ \A r \in Reqs :
         (req[r].route = "chat_post" /\ req[r].pc = "chat" /\ req[r].data = <<>>)
         => (Len(req[r].chat_history) = 2 /\ req[r].chat_history[1] = SeedMessage)

\* C8: every failure is answered with the JSON error envelope: no response is
\* an exception that left the handler.
C8_ErrorsAreEnveloped ==
    last.status \notin {0, 200} => last.envelope = "json_error"

\* C9: on every route, a request makes no store read, store write or upstream
\* call before its token has been validated.
C9_AuthFirst ==
    \A q \in Shown :
        (q.reads + q.writes + q.upstream > 0) => q.auth = "ok"

\* C10: every stored history is non-empty, starts with a message of role system,
\* holds no other system message, and alternates user, assistant after it.
C10_SystemSeedAlternation ==
    \A k \in 1..Len(chats) :
        LET h == chats[k].chat_history IN
        /\ Len(h) >= 1
        /\ h[1].role = "system"
        /\ \A i \in 2..Len(h) :
             h[i].role = (IF i % 2 = 0 THEN "user" ELSE "assistant")

\* C11: a /predict_fetal request with a valid token and a numeric feature list
\* whose length is not 15 is answered with 400 (wrong arity) and has made no
\* store write and no scaler or classifier call; no such request reaches the
\* insert.
C11_WrongArityIs400 ==
    /\ (/\ last.route = "predict_fetal" /\ last.auth = "ok"
        /\ last.bodyk = "valid" /\ last.nfeat # 15)
       => /\ last.status = 400
          /\ last.fault = "wrong_arity"
          /\ last.writes = 0 /\ last.scales = 0 /\ last.models = 0
    /\ \A r \in Reqs :
         (req[r].route = "predict_fetal" /\ req[r].bodyk = "valid" /\ req[r].nfeat # 15)
         => req[r].pc # "insert"

\* a 16-element feature list was refused
C11_Witness ==
    /\ last.route = "predict_fetal" /\ last.auth = "ok"
    /\ last.bodyk = "valid" /\ last.nfeat = 16
    /\ last.status = 400

\* C12: on /predict_fetal and /predict_maternal a feature value that does not
\* parse as a number is answered with 400 and no store write.
C12_NotNumericIs400 ==
    (last.route \in {"predict_fetal", "predict_maternal"} /\ last.bodyk = "nonnumeric")
    => (last.status = 400 /\ last.writes = 0)

\* the name the claim gives to a fetal label id
FetalName(id) ==
    IF id = 1 THEN "Normal"
    ELSE IF id = 2 THEN "Suspect"
    ELSE IF id = 3 THEN "Pathological" ELSE "Unknown"

\* C13: once the fetal classifier has returned a label id, known or not, the
\* request goes on to the insert; when the insert succeeds the answer is 200
\* with that id and its name (Unknown for an id other than 1, 2, 3) and the ctg
\* row just inserted carries the user and that id.  Only a failing insert makes
\* such a request fail.
C13_FetalLabelsMapped ==
    (last.route = "predict_fetal" /\ last.prediction # -1) =>
        \/ /\ last.status = 200
           /\ last.body = <<last.prediction, FetalName(last.prediction)>>
           /\ last.writes = 1
           /\ Len(ctg) >= 1
           /\ ctg[Len(ctg)] = [UID |-> last.uid, prediction |-> last.prediction]
        \/ /\ last.status = 500
           /\ last.fault = "store_raise"

\* an id that is no fetal label was answered with 200 and Unknown
C13_Witness ==
    /\ last.route = "predict_fetal"
    /\ last.prediction = 0
    /\ last.status = 200
    /\ last.body = <<0, "Unknown">>

\* C14: when the maternal classifier returns an id outside {0, 1, 2},
\* /predict_maternal answers with the category Unknown instead of an error.
C14_MaternalUnknownLabel ==
    (last.route = "predict_maternal" /\ last.prediction \notin {-1, 0, 1, 2})
    => (last.status = 200 /\ last.body = <<"Unknown">>)

\* the name the claim gives to a maternal label id
MaternalName(id) ==
    IF id = 0 THEN "Normal" ELSE IF id = 1 THEN "Suspect" ELSE "Pathological"

\* C15: an authenticated /predict_maternal request with six numeric features for
\* which the classifier returns an id in {0, 1, 2} and the store takes the insert
\* is answered with 200 and the name of that id; a 200 answer comes with the
\* vitals row of that user and id inserted in the same step; the vitals table
\* changes in no other step, so a failed request inserts nothing.
C15_MaternalInsertAndAnswer ==
    [][/\ (/\ last'.route = "predict_maternal" /\ last'.auth = "ok"
           /\ last'.bodyk = "valid" /\ last'.prediction \in {0, 1, 2}
           /\ last'.fault # "store_raise")
          => last'.status = 200
       /\ (last'.route = "predict_maternal" /\ last'.status = 200)
          => /\ last'.prediction \in {0, 1, 2}
             /\ last'.body = <<MaternalName(last'.prediction)>>
             /\ last'.writes = 1
             /\ vitals' = Append(vitals, [UID |-> last'.uid,
                                          prediction |-> last'.prediction])
       /\ (vitals' # vitals)
          => (last'.route = "predict_maternal" /\ last'.status = 200)]_vars

\* a maternal request answered Pathological with its row stored
C15_Witness ==
    /\ last.route = "predict_maternal"
    /\ last.status = 200
    /\ last.body = <<"Pathological">>
    /\ Len(vitals) = 1
    /\ vitals[1] = [UID |-> last.uid, prediction |-> 2]

\* the request of worker r after a step: still running, or just answered
After(r) == IF req'[r].pc = "idle" THEN last' ELSE req'[r]

\* worker r takes a step
Steps(r) == req'[r] # req[r]

\* the authoritative history of user u in the table rows
StoredIn(rows, u) ==
    LET d == LatestRow(rows, u) IN IF d = <<>> THEN <<>> ELSE d[1].chat_history

\* C16: a step of a GET /chat request leaves the chats table unchanged; a GET
\* /chat answered with 200 returns the stored history of its user, and it
\* returns the same history as the previous GET /chat of that user when no
\* POST /chat has written the user's row in between.
C16_GetIsReadOnlyIdempotent ==
    [][\A r \in Reqs :
          (Steps(r) /\ After(r).route = "chat_get") =>
              /\ chats' = chats
              /\ (After(r).status = 200) =>
                    /\ After(r).body = Stored(After(r).uid)
                    /\ got[After(r).uid].n > 0 => After(r).body = got[After(r).uid].hist]_vars

\* a second GET /chat of a user with one stored turn, no write in between
C16_Witness ==
    \E u \in Users :
        /\ got[u].n = 2
        /\ Len(got[u].hist) = 3
        /\ last.route = "chat_get" /\ last.uid = u /\ last.status = 200

\* C17: a step of a /chat request of user u leaves the stored conversation of
\* every other user unchanged and loads rows of u only; the history a GET /chat
\* of u returns holds no more turns than u has posted and no user message that
\* u has not posted.
C17_PerUserIsolation ==
    [][\A r \in Reqs :
          LET q == After(r)
              u == q.uid
          IN
          (Steps(r) /\ q.route \in {"chat_get", "chat_post"} /\ u # Nobody) =>
              /\ \A v \in Users \ {u} : LatestRow(chats', v) = LatestRow(chats, v)
              /\ \A k \in 1..Len(q.data) : q.data[k].UID = u
              /\ (q.route = "chat_get" /\ q.status = 200) =>
                    /\ Len(q.body) <= 1 + 2 * Len(turns[u])
                    /\ \A i \in 1..Len(q.body) :
                         (i > 1 /\ q.body[i].role = "user") =>
                            \E j \in 1..Len(turns[u]) : q.body[i].content = turns[u][j]]_vars

\* both users have a stored conversation, with different messages, and a GET
\* /chat has just returned its own user's
C17_Witness ==
    \E u \in Users, v \in Users :
        /\ u # v
        /\ last.route = "chat_get" /\ last.uid = u /\ last.status = 200
        /\ Stored(v) # <<>>
        /\ Stored(v)[2] # last.body[2]

C19_TurnExtendsStored ==
    [][\A r \in Reqs :
          LET q == After(r)
              u == q.uid
              loaded == IF q.data = <<>> THEN SeedHistory ELSE q.data[1].chat_history
              um == [role |-> "user", content |-> q.msg]
              am == [role |-> "assistant", content |-> q.content]
          IN
          (/\ Steps(r) /\ q.route = "chat_post"
           /\ q.status = 200 /\ q.content # PyNone) =>
              /\ q.sent = loaded \o <<um>>
              /\ StoredIn(chats', u) = loaded \o <<um, am>>
              /\ q.upstream = 1 /\ q.writes = 1
              /\ ~overlapped[u] => LatestRow(chats, u) = q.data]_vars

\* a second turn was stored on top of a stored first one
C19_Witness ==
    /\ last.route = "chat_post" /\ last.status = 200
    /\ last.content = "r1"
    /\ last.data # <<>>
    /\ Len(Stored(last.uid)) = 5

\* C20: every history in the chats table starts with the seed message, has an
\* odd length of at least 3 and ends with an assistant message.
C20_StoredHistoryShape ==
    \A k \in 1..Len(chats) :
        LET h == chats[k].chat_history IN
        /\ Len(h) >= 3
        /\ Len(h) % 2 = 1
        /\ h[1] = SeedMessage
        /\ h[Len(h)].role = "assistant"

\* overlapping POSTs of one user, and the stored turn is one whose reply had
\* no content
C20_Witness ==
    \E u \in Users :
        /\ overlapped[u]
        /\ Len(turns[u]) = 2
        /\ Len(Stored(u)) = 3
        /\ Stored(u)[3] = [role |-> "assistant", content |-> "None"]

====
